---- MODULE Spec2Model ----
(***************************************************************************)
(* BISE Sargodha result scraper (src/app.py): the driver loop over a roll  *)
(* number range, fetch_one_roll with its token fetch (get_tokens), form    *)
(* submission and response parsing, and the table save_summary_pdf builds. *)
(*                                                                         *)
(* Text is a sequence of one-character strings, so that str(), strip and   *)
(* the "Error: " prefix are computed, not assumed.  A Python value is a    *)
(* record [kind, num, txt]: kind "int" uses num, kind "str" uses txt.      *)
(***************************************************************************)
EXTENDS Integers, Sequences, FiniteSets, TLC

\* ------------------------------------------------------------------ bounds
\* The configured bounds range over RollBase - 2 .. RollBase + MaxSpan.
RollBase == 8
MaxSpan == 2

\* ------------------------------------------------------------------ values
PyInt(n) == [kind |-> "int", num |-> n, txt |-> <<>>]
Str(s) == [kind |-> "str", num |-> 0, txt |-> s]

Digits == <<"0", "1", "2", "3", "4", "5", "6", "7", "8", "9">>

RECURSIVE DecimalText(_)
\* the decimal digits of a natural number, most significant first
DecimalText(n) ==
    IF n < 10 THEN <<Digits[n + 1]>>
    ELSE Append(DecimalText(n \div 10), Digits[(n % 10) + 1])

\* str(roll_no) of an int
PyStr(n) == Str(DecimalText(n))

IsSpace(c) == c = " "

RECURSIVE LStrip(_)
LStrip(s) == IF s # <<>> /\ IsSpace(Head(s)) THEN LStrip(Tail(s)) ELSE s

RECURSIVE RStrip(_)
RStrip(s) ==
    IF s # <<>> /\ IsSpace(s[Len(s)]) THEN RStrip(SubSeq(s, 1, Len(s) - 1)) ELSE s

\* tag.get_text(strip=True) of a tag holding one text node
GetTextStrip(tag) == RStrip(LStrip(tag.text))

\* ------------------------------------------------------------- HTML pages
\* soup.select_one(id): a tag, or None (present = FALSE)
NoTag == [present |-> FALSE, text |-> <<>>]
Tag(t) == [present |-> TRUE, text |-> t]

\* the raw texts each field of the result page may hold: blank, or a text
\* with white space around it
Blank == <<" ">>
ErrTexts == {Blank, <<" ", "E", " ">>}
NameTexts == {Blank, <<"N", " ">>}
RollTexts == {Blank, <<" ", "7">>}
ResTexts == {Blank, <<"P", " ", "5">>}
FieldTags(texts) == {NoTag} \cup {Tag(t) : t \in texts}

\* the response to the form submission, by the four ids the code reads
ResultPages ==
    [LblErr : FieldTags(ErrTexts), LblName : FieldTags(NameTexts),
     LblRollNo : FieldTags(RollTexts), lblGazres : FieldTags(ResTexts)]

\* the results page fetched for its tokens: each hidden field present or not
TokenPages == [hasViewState : BOOLEAN, hasEventValidation : BOOLEAN]


\* what a network call can raise, and str(e) of each exception
TimeoutMsg == <<"t", "i", "m", "e", "d", " ", "o", "u", "t">>
NoneSubscriptMsg == <<"N", "o", "n", "e", "T", "y", "p", "e">>
ParserMsg == <<"n", "o", " ", "p", "a", "r", "s", "e", "r">>
ErrorPrefix == <<"E", "r", "r", "o", "r", ":", " ">>

NoExc == [raised |-> FALSE, cls |-> "", msg |-> <<>>]
Raise(c, m) == [raised |-> TRUE, cls |-> c, msg |-> m]
TimeoutExc == Raise("Timeout", TimeoutMsg)
TypeErrorExc == Raise("TypeError", NoneSubscriptMsg)
ParserExc == Raise("FeatureNotFound", ParserMsg)

\* the classes above are all subclasses of Exception
ExceptionClasses == {"Timeout", "TypeError", "FeatureNotFound"}

\* how a network call and the parse of its response can end: the call times
\* out, BeautifulSoup raises, or a parsed page
Replies(pages) ==
    {[exc |-> e, page |-> CHOOSE p \in pages : TRUE] : e \in {TimeoutExc, ParserExc}}
        \cup {[exc |-> NoExc, page |-> p] : p \in pages}

VARIABLES
    start_roll,     \* first roll number (configuration)
    end_roll,       \* last roll number (configuration)
    it,             \* the next value range(start_roll, end_roll + 1) yields
    rn,             \* the loop variable
    pc,             \* the driver's position
    results,        \* the accumulator list
    data,           \* the record fetch_one_roll returned, not yet appended
    tokens,         \* (viewstate, eventvalidation) inside fetch_one_roll
    resp,           \* the response page the pending record was parsed from
    netlog,         \* every network call issued so far, in order
    calls,          \* every return of fetch_one_roll so far: (roll_no, record)
    rows,           \* the rows save_summary_pdf handed to Table
    pdf_calls,      \* how often save_summary_pdf was entered
    pdf_saved,      \* doc.build completed
    crash_site      \* where an unhandled exception left the program

vars == <<start_roll, end_roll, it, rn, pc, results, data, tokens, resp, netlog,
          calls, rows, pdf_calls, pdf_saved, crash_site>>

NoData == [x \in {} |-> Str(<<>>)]
NoTokens == [ok |-> FALSE, viewstate |-> 0, eventvalidation |-> 0]
NoResp == [valid |-> FALSE, page |-> CHOOSE p \in ResultPages : TRUE]

ConfigRolls == (RollBase - 2) .. (RollBase + MaxSpan)

\* ------------------------------------------------------------ get_tokens
\* the token pair the server issues on the n-th retrieval of the page
IssuedViewState(n) == n
IssuedEventValidation(n) == 100 + n

\* get_tokens on a fetched page: select_one(id)["value"] of both hidden
\* fields; a missing field makes None["value"] raise TypeError
get_tokens(page, n) ==
    IF page.hasViewState /\ page.hasEventValidation
    THEN [exc |-> NoExc, viewstate |-> IssuedViewState(n),
          eventvalidation |-> IssuedEventValidation(n)]
    ELSE [exc |-> TypeErrorExc, viewstate |-> 0, eventvalidation |-> 0]

\* ---------------------------------------------------------- fetch_one_roll
\* mutant: the tokens of the run's first fetch are reused for every lookup
PayloadFirstTokens(viewstate, eventvalidation, roll_no) ==
    [__VIEWSTATE |-> netlog[1].viewstate,
     __EVENTVALIDATION |-> netlog[1].eventvalidation,
     __EVENTTARGET |-> <<>>,
     __EVENTARGUMENT |-> <<>>,
     RbtSearchType |-> "Search by Roll No.",
     TxtSearchText |-> PyStr(roll_no),
     BtnShowResults |-> "Show Result"]

\* the form data posted
Payload(viewstate, eventvalidation, roll_no) ==
    [__VIEWSTATE |-> viewstate,
     __EVENTVALIDATION |-> eventvalidation,
     __EVENTTARGET |-> <<>>,
     __EVENTARGUMENT |-> <<>>,
     RbtSearchType |-> "Search by Roll No.",
     TxtSearchText |-> PyStr(roll_no),
     BtnShowResults |-> "Show Result"]

Record(roll, name, result) ==
    [k \in {"Roll No", "Name", "Result"} |->
        IF k = "Roll No" THEN roll ELSE IF k = "Name" THEN name ELSE result]

\* mutant: get_tokens is called outside the try block, nothing catches
HandlesNothing(e) == FALSE

\* mutant: the handler catches time-outs only
HandlesTimeoutOnly(e) == e.cls = "Timeout"

\* except Exception as e: which raised classes the handler catches
Handles(e) == e.cls \in ExceptionClasses

\* the handler's return value
ExceptRecord(roll_no, e) ==
    Record(PyInt(roll_no), Str(<<>>), Str(ErrorPrefix \o e.msg))

\* mutant: the error field is looked at only when the page holds no name
ParseNameBeforeError(page, roll_no) ==
    IF ~page.LblName.present /\ page.LblErr.present /\ GetTextStrip(page.LblErr) # <<>>
    THEN Record(PyInt(roll_no), Str(<<>>), Str(GetTextStrip(page.LblErr)))
    ELSE Record(
            IF page.LblRollNo.present THEN Str(GetTextStrip(page.LblRollNo))
                                      ELSE PyStr(roll_no),
            IF page.LblName.present THEN Str(GetTextStrip(page.LblName)) ELSE Str(<<>>),
            IF page.lblGazres.present THEN Str(GetTextStrip(page.lblGazres)) ELSE Str(<<>>))

\* mutant: a missing roll-number field is defaulted to empty text, like the
\* other two fields
ParseRollDefaultEmpty(page, roll_no) ==
    IF page.LblErr.present /\ GetTextStrip(page.LblErr) # <<>>
    THEN Record(PyInt(roll_no), Str(<<>>), Str(GetTextStrip(page.LblErr)))
    ELSE Record(
            IF page.LblRollNo.present THEN Str(GetTextStrip(page.LblRollNo)) ELSE Str(<<>>),
            IF page.LblName.present THEN Str(GetTextStrip(page.LblName)) ELSE Str(<<>>),
            IF page.lblGazres.present THEN Str(GetTextStrip(page.lblGazres)) ELSE Str(<<>>))

\* the return value of fetch_one_roll once the response page is parsed
ParseResponse(page, roll_no) ==
    IF page.LblErr.present /\ GetTextStrip(page.LblErr) # <<>>
    THEN Record(PyInt(roll_no), Str(<<>>), Str(GetTextStrip(page.LblErr)))
    ELSE Record(
            IF page.LblRollNo.present THEN Str(GetTextStrip(page.LblRollNo))
                                      ELSE PyStr(roll_no),
            IF page.LblName.present THEN Str(GetTextStrip(page.LblName)) ELSE Str(<<>>),
            IF page.lblGazres.present THEN Str(GetTextStrip(page.lblGazres)) ELSE Str(<<>>))

\* -------------------------------------------------------- save_summary_pdf
HeaderRow ==
    << Str(<<"R", "o", "l", "l", " ", "N", "o">>),
       Str(<<"N", "a", "m", "e">>),
       Str(<<"F", "i", "n", "a", "l", " ", "R", "e", "s", "u", "l", "t">>) >>

\* entry.get(key, "")
DictGet(entry, key) == IF key \in DOMAIN entry THEN entry[key] ELSE Str(<<>>)

\* mutant: the header's third cell is the record key, "Result"
SummaryRowsKeyHeader(data_list) ==
    << << HeaderRow[1], HeaderRow[2], Str(<<"R", "e", "s", "u", "l", "t">>) >> >> \o
    [i \in 1 .. Len(data_list) |->
        << DictGet(data_list[i], "Roll No"),
           DictGet(data_list[i], "Name"),
           DictGet(data_list[i], "Result") >>]

\* the rows list handed to Table
SummaryRows(data_list) ==
    <<HeaderRow>> \o
    [i \in 1 .. Len(data_list) |->
        << DictGet(data_list[i], "Roll No"),
           DictGet(data_list[i], "Name"),
           DictGet(data_list[i], "Result") >>]

\* ------------------------------------------------------------------ driver
\* mutant: range(start_roll, end_roll), the last roll number is left out
RangeExcludesEnd(i, last) == i < last

\* mutant: range(start_roll, end_roll + 2), one roll number too many
RangeOnePastEnd(i, last) == i < last + 2

\* range(start_roll, end_roll + 1) has a next value
RangeHasNext(i, last) == i < last + 1

\* mutant: the record is inserted at the front of the list
InsertFirst(list, d) == <<d>> \o list

\* results.append(data)
AppendResult(list, d) == Append(list, d)

Init ==
    /\ start_roll \in RollBase .. (RollBase + MaxSpan)
    /\ end_roll \in ConfigRolls
    /\ it = start_roll
    /\ rn = 0
    /\ pc = "for"
    /\ results = <<>>
    /\ data = NoData
    /\ tokens = NoTokens
    /\ resp = NoResp
    /\ netlog = <<>>
    /\ calls = <<>>
    /\ rows = <<>>
    /\ pdf_calls = 0
    /\ pdf_saved = FALSE
    /\ crash_site = ""

GetCount == Cardinality({i \in 1 .. Len(netlog) : netlog[i].op = "GET"})

\* for rn in range(start_roll, end_roll + 1): the next roll number
ForNext ==
    /\ pc = "for"
    /\ RangeHasNext(it, end_roll)
    /\ rn' = it
    /\ it' = it + 1
    /\ pc' = "get"
    /\ UNCHANGED <<start_roll, end_roll, results, data, tokens, resp, netlog,
                   calls, rows, pdf_calls, pdf_saved, crash_site>>

\* the range is exhausted: the with block ends
ForExit ==
    /\ pc = "for"
    /\ ~RangeHasNext(it, end_roll)
    /\ pc' = "save"
    /\ UNCHANGED <<start_roll, end_roll, it, rn, results, data, tokens, resp,
                   netlog, calls, rows, pdf_calls, pdf_saved, crash_site>>

\* fetch_one_roll returns d to the loop body (data = fetch_one_roll(...))
Return(d) ==
    /\ data' = d
    /\ calls' = Append(calls, [roll_no |-> rn, ret |-> d])
    /\ pc' = "append"
    /\ crash_site' = crash_site

\* an exception e is raised inside the try block of fetch_one_roll
Except(e) ==
    IF Handles(e)
    THEN Return(ExceptRecord(rn, e))
    ELSE /\ UNCHANGED <<data, calls>>
         /\ pc' = "crashed"
         /\ crash_site' = "fetch_one_roll"

\* fetch_one_roll up to the return of get_tokens: session.get and the parse
\* of its response fail, or give a page
FetchTokens ==
    /\ pc = "get"
    /\ \E reply \in Replies(TokenPages) :
        LET n == GetCount + 1
            got == IF reply.exc.raised
                   THEN [exc |-> reply.exc, viewstate |-> 0, eventvalidation |-> 0]
                   ELSE get_tokens(reply.page, n)
        IN /\ netlog' = Append(netlog,
                  [op |-> "GET", rn |-> rn, ok |-> ~got.exc.raised,
                   viewstate |-> got.viewstate,
                   eventvalidation |-> got.eventvalidation,
                   payload |-> <<>>])
           /\ IF got.exc.raised
              THEN /\ Except(got.exc)
                   /\ tokens' = tokens
              ELSE /\ tokens' = [ok |-> TRUE, viewstate |-> got.viewstate,
                                 eventvalidation |-> got.eventvalidation]
                   /\ pc' = "post"
                   /\ UNCHANGED <<data, calls, crash_site>>
    /\ UNCHANGED <<start_roll, end_roll, it, rn, results, resp, rows, pdf_calls,
                   pdf_saved>>

\* fetch_one_roll from the payload to its return: session.post and the parse
\* of its response fail, or give a page whose fields are read
SubmitForm ==
    /\ pc = "post"
    /\ \E reply \in Replies(ResultPages) :
        LET payload == Payload(tokens.viewstate, tokens.eventvalidation, rn)
        IN /\ netlog' = Append(netlog,
                  [op |-> "POST", rn |-> rn, ok |-> ~reply.exc.raised,
                   viewstate |-> payload.__VIEWSTATE,
                   eventvalidation |-> payload.__EVENTVALIDATION,
                   payload |-> payload.TxtSearchText.txt])
           /\ IF reply.exc.raised
              THEN /\ Except(reply.exc)
                   /\ resp' = resp
              ELSE /\ Return(ParseResponse(reply.page, rn))
                   /\ resp' = [valid |-> TRUE, page |-> reply.page]
    /\ tokens' = NoTokens
    /\ UNCHANGED <<start_roll, end_roll, it, rn, results, rows, pdf_calls, pdf_saved>>

\* print(data); results.append(data)
AppendData ==
    /\ pc = "append"
    /\ results' = AppendResult(results, data)
    /\ data' = NoData
    /\ resp' = NoResp
    /\ pc' = "for"
    /\ UNCHANGED <<start_roll, end_roll, it, rn, tokens, netlog, calls, rows,
                   pdf_calls, pdf_saved, crash_site>>

\* save_summary_pdf(results, ...): the table is built and doc.build writes it
SavePdfOk ==
    /\ pc = "save"
    /\ rows' = SummaryRows(results)
    /\ pdf_calls' = pdf_calls + 1
    /\ pdf_saved' = TRUE
    /\ pc' = "done"
    /\ UNCHANGED <<start_roll, end_roll, it, rn, results, data, tokens, resp,
                   netlog, calls, crash_site>>

\* save_summary_pdf(results, ...): doc.build raises, nothing catches it
SavePdfFails ==
    /\ pc = "save"
    /\ rows' = SummaryRows(results)
    /\ pdf_calls' = pdf_calls + 1
    /\ pc' = "crashed"
    /\ crash_site' = "save_summary_pdf"
    /\ UNCHANGED <<start_roll, end_roll, it, rn, results, data, tokens, resp,
                   netlog, calls, pdf_saved>>

\* the process is interrupted inside the loop (KeyboardInterrupt is not an
\* Exception; nothing in the loop handles it)
Interrupt ==
    /\ pc \in {"for", "get", "post", "append"}
    /\ pc' = "interrupted"
    /\ UNCHANGED <<start_roll, end_roll, it, rn, results, data, tokens, resp,
                   netlog, calls, rows, pdf_calls, pdf_saved, crash_site>>

Next ==
    \/ ForNext
    \/ ForExit
    \/ FetchTokens
    \/ SubmitForm
    \/ AppendData
    \/ SavePdfOk
    \/ SavePdfFails
    \/ Interrupt

Spec == Init /\ [][Next]_vars

\* ------------------------------------------------------ shared vocabulary
LoopPcs == {"for", "get", "post", "append"}
AfterLoop == {"save", "done", "crashed"}

\* how many roll numbers the closed range [start_roll, end_roll] holds
RangeSize == IF start_roll <= end_roll THEN end_roll - start_roll + 1 ELSE 0

EventsOf(op, r) == {i \in 1 .. Len(netlog) : netlog[i].op = op /\ netlog[i].rn = r}
CallsOf(r) == {i \in 1 .. Len(calls) : calls[i].roll_no = r}

IsPrefix(p, s) == Len(p) <= Len(s) /\ SubSeq(s, 1, Len(p)) = p

\* Name is empty and Result is a text beginning with "Error"
IsErrorRecord(d) ==
    /\ d["Name"] = Str(<<>>)
    /\ d["Result"].kind = "str"
    /\ IsPrefix(<<"E", "r", "r", "o", "r">>, d["Result"].txt)

RowOf(d) == <<d["Roll No"], d["Name"], d["Result"]>>

\* the lookup of roll number r ended in a caught exception
FailedLookup(r) == \E i \in 1 .. Len(netlog) : netlog[i].rn = r /\ ~netlog[i].ok

\* ---------------------------------------------------------------- claims
\* C1: for a closed range with start <= end, whatever the outcomes of the
\* lookups, once the loop has ended fetch_one_roll has returned exactly one
\* record per roll number, the accumulator holds them in ascending roll
\* order, and the rows handed to the document are the header row followed by
\* end - start + 1 data rows, the k-th being the record of roll start + k - 1.
C1_OneRowPerRoll ==
    (start_roll <= end_roll /\ pc \in AfterLoop) =>
        /\ \A r \in start_roll .. end_roll : Cardinality(CallsOf(r)) = 1
        /\ Len(calls) = end_roll - start_roll + 1
        /\ Len(results) = end_roll - start_roll + 1
        /\ \A k \in 1 .. Len(results) :
              /\ calls[k].roll_no = start_roll + k - 1
              /\ results[k] = calls[k].ret
        /\ pdf_calls > 0 =>
              /\ Len(rows) = (end_roll - start_roll + 1) + 1
              /\ rows[1] = HeaderRow
              /\ \A k \in 1 .. (end_roll - start_roll + 1) :
                    rows[k + 1] = RowOf(calls[k].ret)

\* a finished run over three roll numbers that mixes a caught exception, a
\* server-reported error and a success
C1_Witness ==
    /\ pc = "done"
    /\ end_roll - start_roll >= 2
    /\ FailedLookup(start_roll)
    /\ results[2]["Result"] = Str(<<"E">>)
    /\ results[3]["Name"] = Str(<<"N">>)

\* C2: fetch_one_roll never raises: a failed token fetch (timeout or missing
\* hidden field) or a failed form submission gives exactly one record for
\* that roll number, with Name empty and Result beginning with "Error", and
\* the driver goes on to the next roll number of the range.
C2_FailuresContained ==
    /\ crash_site # "fetch_one_roll"
    /\ \A i \in 1 .. Len(netlog) :
          ~netlog[i].ok =>
             LET r == netlog[i].rn IN
             /\ Cardinality(CallsOf(r)) = 1
             /\ \A c \in CallsOf(r) : IsErrorRecord(calls[c].ret)
             /\ (pc \in AfterLoop /\ r < end_roll) => EventsOf("GET", r + 1) # {}
             /\ pc \in AfterLoop => IsErrorRecord(results[r - start_roll + 1])

\* a finished run in which the token fetch timed out for one roll number, a
\* hidden field was missing for the next, and the parse of the submission's
\* response failed for the third
C2_Witness ==
    /\ pc = "done"
    /\ Len(netlog) = 4
    /\ Len(results) = 3
    /\ results[1]["Result"] = Str(ErrorPrefix \o TimeoutMsg)
    /\ results[2]["Result"] = Str(ErrorPrefix \o NoneSubscriptMsg)
    /\ netlog[3].op = "GET" /\ netlog[3].ok
    /\ netlog[4].op = "POST" /\ ~netlog[4].ok
    /\ results[3]["Result"] = Str(ErrorPrefix \o ParserMsg)
    /\ IsErrorRecord(results[3])

\* the pending record was parsed from a response whose #LblErr is non-empty
ServerError == resp.valid /\ resp.page.LblErr.present /\ GetTextStrip(resp.page.LblErr) # <<>>

\* the pending record was parsed from a response without a (non-blank) #LblErr
NoServerError == resp.valid /\ ~(resp.page.LblErr.present /\ GetTextStrip(resp.page.LblErr) # <<>>)

\* C3: when the response to the submission holds a non-empty #LblErr, the
\* record returned has Name empty and Result equal to the error text (as
\* get_text(strip=True) gives it), whatever the name, roll-number and result
\* fields of that response hold.
C3_ErrorFieldWins ==
    (pc = "append" /\ ServerError) =>
        /\ data["Name"] = Str(<<>>)
        /\ data["Result"] = Str(GetTextStrip(resp.page.LblErr))
        /\ data["Result"] = Str(<<"E">>)

\* a response with a non-empty error field and all three other fields set
C3_Witness ==
    /\ pc = "append"
    /\ ServerError
    /\ resp.page.LblName = Tag(<<"N", " ">>)
    /\ resp.page.LblRollNo = Tag(<<" ", "7">>)
    /\ resp.page.lblGazres = Tag(<<"P", " ", "5">>)

\* C4: when the response holds no #LblErr, or a blank one, the record's Name,
\* Roll No and Result are the texts of #LblName, #LblRollNo and #lblGazres;
\* each missing field is defaulted on its own: Name and Result to empty
\* text, Roll No to the text of the input roll number.  A response with none
\* of the fields is a success record, not an error record.
C4_FieldsAndDefaults ==
    (pc = "append" /\ NoServerError) =>
        LET page == resp.page IN
        /\ DOMAIN data = {"Roll No", "Name", "Result"}
        /\ data["Name"] =
              (IF page.LblName.present THEN Str(GetTextStrip(page.LblName)) ELSE Str(<<>>))
        /\ data["Roll No"] =
              (IF page.LblRollNo.present THEN Str(GetTextStrip(page.LblRollNo))
                                         ELSE Str(DecimalText(rn)))
        /\ data["Result"] =
              (IF page.lblGazres.present THEN Str(GetTextStrip(page.lblGazres)) ELSE Str(<<>>))
        /\ (page.LblName = Tag(<<"N", " ">>)) => data["Name"] = Str(<<"N">>)
        /\ (page.LblRollNo = Tag(<<" ", "7">>)) => data["Roll No"] = Str(<<"7">>)
        /\ (page.lblGazres = Tag(<<"P", " ", "5">>)) => data["Result"] = Str(<<"P", " ", "5">>)
        /\ (~page.LblName.present /\ ~page.LblRollNo.present /\ ~page.lblGazres.present) =>
              /\ data = Record(Str(DecimalText(rn)), Str(<<>>), Str(<<>>))
              /\ ~IsErrorRecord(data)

\* a two-digit roll number whose response holds none of the four fields
C4_Witness ==
    /\ pc = "append"
    /\ resp.valid
    /\ rn = 10
    /\ resp.page = [LblErr |-> NoTag, LblName |-> NoTag, LblRollNo |-> NoTag,
                    lblGazres |-> NoTag]
    /\ data["Roll No"] = Str(<<"1", "0">>)

\* C5: every record fetch_one_roll returns has exactly the fields Roll No,
\* Name and Result, and all three are text; in particular Roll No is text in
\* every record that reaches the accumulator and the report writer.
C5_AllFieldsText ==
    /\ \A c \in 1 .. Len(calls) :
          /\ DOMAIN calls[c].ret = {"Roll No", "Name", "Result"}
          /\ \A k \in DOMAIN calls[c].ret : calls[c].ret[k].kind = "str"
    /\ \A i \in 1 .. Len(results) : results[i]["Roll No"].kind = "str"
    /\ \A i \in 2 .. Len(rows) : rows[i][1].kind = "str"

\* C6: whatever records save_summary_pdf is given (none, or records holding
\* error text), the first row of its table is ["Roll No", "Name",
\* "Final Result"], followed by one row per record in input order holding
\* the record's Roll No, Name and Result unchanged.
C6_HeaderThenRecords ==
    pdf_calls > 0 =>
        /\ Len(rows) = Len(results) + 1
        /\ Len(rows[1]) = 3
        /\ rows[1][1] = Str(<<"R", "o", "l", "l", " ", "N", "o">>)
        /\ rows[1][2] = Str(<<"N", "a", "m", "e">>)
        /\ rows[1][3] = Str(<<"F", "i", "n", "a", "l", " ", "R", "e", "s", "u", "l", "t">>)
        /\ \A i \in 1 .. Len(results) :
              rows[i + 1] = <<results[i]["Roll No"], results[i]["Name"], results[i]["Result"]>>

\* the table of a finished run whose records are a success and an error
C6_Witness ==
    /\ pc = "done"
    /\ Len(results) = 2
    /\ results[1]["Name"] = Str(<<"N">>)
    /\ IsErrorRecord(results[2])
    /\ rows[3][3] = Str(ErrorPrefix \o TimeoutMsg)

\* the first network call of the run was a token fetch, and it failed
FirstTokenFetchFailed == netlog # <<>> /\ netlog[1].op = "GET" /\ ~netlog[1].ok

\* C7 as stated: a failure of the very first token fetch of the run is not
\* absorbed by the per-lookup handler but is fatal: no record comes of it
\* and the report writer never produces a document.
C7_FirstTokenFailureFatal ==
    FirstTokenFetchFailed => (calls = <<>> /\ results = <<>> /\ ~pdf_saved)

\* C7 amended: a failure of the first token fetch is absorbed by the handler
\* of fetch_one_roll like any other (an error record for the first roll
\* number, the loop goes on, the report writer runs); the only fatal failure
\* is one during document writing, which leaves the run without a completed
\* document.
C7_OnlyWriterFailureFatal ==
    /\ FirstTokenFetchFailed =>
          /\ calls # <<>>
          /\ calls[1].roll_no = start_roll
          /\ IsErrorRecord(calls[1].ret)
          /\ pc \in AfterLoop => (results # <<>> /\ results[1] = calls[1].ret)
          /\ pc = "done" => (pdf_saved /\ rows[2] = RowOf(calls[1].ret))
    /\ pc = "crashed" =>
          /\ crash_site = "save_summary_pdf"
          /\ pdf_calls = 1
          /\ ~pdf_saved

\* a finished run whose first token fetch failed and whose document was
\* written all the same
C7_Witness ==
    /\ FirstTokenFetchFailed
    /\ pc = "done"
    /\ pdf_saved
    /\ Len(results) >= 2

\* C8: each lookup runs its own token-fetch-then-submit cycle: one GET per
\* roll number, a POST only right after that lookup's successful GET and
\* carrying the tokens that GET returned and the roll number as text, at
\* most one POST per roll number, and no network call for a roll number
\* before the records of all earlier roll numbers are appended.  A run with
\* start = end holds exactly one such cycle.
C8_OwnCyclePerLookup ==
    /\ \A r \in start_roll .. end_roll :
          /\ Cardinality(EventsOf("GET", r)) <= 1
          /\ Cardinality(EventsOf("POST", r)) <= 1
          /\ (CallsOf(r) # {} \/ (rn = r /\ pc = "post")) =>
                Cardinality(EventsOf("GET", r)) = 1
    /\ \A i \in 1 .. Len(netlog) :
          /\ netlog[i].rn \in start_roll .. end_roll
          /\ Len(results) >= netlog[i].rn - start_roll
          /\ netlog[i].op = "POST" =>
                /\ i > 1
                /\ netlog[i - 1].op = "GET"
                /\ netlog[i - 1].ok
                /\ netlog[i - 1].rn = netlog[i].rn
                /\ netlog[i].viewstate = netlog[i - 1].viewstate
                /\ netlog[i].eventvalidation = netlog[i - 1].eventvalidation
                /\ netlog[i].payload = DecimalText(netlog[i].rn)
          /\ (netlog[i].op = "GET" /\ i > 1) =>
                netlog[i - 1].rn < netlog[i].rn
    /\ (start_roll = end_roll /\ pc \in AfterLoop) =>
          /\ Cardinality({i \in 1 .. Len(netlog) : netlog[i].op = "GET"}) = 1
          /\ Len(netlog) = (IF netlog[1].ok THEN 2 ELSE 1)

\* a finished run with three complete cycles, each POST with its own tokens
C8_Witness ==
    /\ pc = "done"
    /\ Len(netlog) = 6
    /\ netlog[6].op = "POST"
    /\ netlog[6].viewstate # netlog[2].viewstate

\* C9 (state part): the report writer is entered at most once, only after
\* the last roll number of the range is looked up and appended, with the
\* full accumulator; the accumulator's length is the number of completed
\* lookups; nothing is written while the loop runs, so an interrupted run
\* has no document and its records are lost.
C9_WriterOnceAfterLoop ==
    /\ pdf_calls <= 1
    /\ pdf_calls = 1 =>
          /\ pc \in {"done", "crashed"}
          /\ Len(results) = RangeSize
          /\ rows = SummaryRows(results)
          /\ \A r \in start_roll .. end_roll : results[r - start_roll + 1] = calls[r - start_roll + 1].ret
    /\ pc = "done" => (pdf_calls = 1 /\ pdf_saved)
    /\ Len(results) = Len(calls) - (IF pc = "append" \/ (pc = "interrupted" /\ data # NoData) THEN 1 ELSE 0)
    /\ pc \in LoopPcs \cup {"interrupted", "save"} =>
          (pdf_calls = 0 /\ ~pdf_saved /\ rows = <<>>)

\* C9 (step part): the accumulator is append-only
C9_AppendOnlyStep ==
    \/ results' = results
    \/ /\ Len(results') = Len(results) + 1
       /\ SubSeq(results', 1, Len(results)) = results

\* C9: the report writer runs once, after the loop, with the full
\* accumulator, which is only ever appended to; an interrupted run has
\* written nothing.
C9_WriterOnceAppendOnly == []C9_WriterOnceAfterLoop /\ [][C9_AppendOnlyStep]_vars

\* the writer has run, once, after a loop over three roll numbers
C9_Witness ==
    /\ pc = "done"
    /\ pdf_calls = 1
    /\ Len(results) = 3
    /\ Len(rows) = 4

\* C10: with start > end no token fetch and no submission is made, the
\* accumulator stays empty, and the report writer is still entered exactly
\* once, with a table that is the header row alone.
C10_EmptyRange ==
    start_roll > end_roll =>
        /\ netlog = <<>>
        /\ calls = <<>>
        /\ results = <<>>
        /\ pc \in {"for", "save", "done", "crashed", "interrupted"}
        /\ pdf_calls <= 1
        /\ pc \in {"done", "crashed"} => (pdf_calls = 1 /\ rows = <<HeaderRow>>)
        /\ pc = "done" => pdf_saved

\* the document of a run whose range is empty by more than one
C10_Witness ==
    /\ start_roll > end_roll + 1
    /\ pc = "done"
    /\ pdf_saved
    /\ Len(rows) = 1

====
